---- MODULE Spec2Model ----
(* Model of guia_apis.py: one run of the script is                          *)
(*   fetch -> connect -> create table -> insert loop -> commit ->           *)
(*   read-back -> close -> derived columns -> tabs,                         *)
(* and the script is run again on every interaction (Rerun). The SQLite     *)
(* file persists between runs.                                              *)
EXTENDS Integers, Sequences, FiniteSets, TLC

(* ------------------------------------------------------------------ *)
(* Bounds                                                             *)
(* ------------------------------------------------------------------ *)
MaxId == 2        \* ids carried by fetched records are 1..MaxId
MaxFetch == 2     \* longest fetched sequence
MaxEmailLen == 3  \* longest email text of the derivation runs
MaxNameLen == 2   \* longest name / username text of the derivation runs

\* highest rowid the store may reach (cap on the rowids SQLite assigns)
MaxRowId == MaxId + 1

(* ------------------------------------------------------------------ *)
(* Values                                                             *)
(* ------------------------------------------------------------------ *)
\* Python None / SQL NULL of a text field. Texts are sequences of
\* one-character strings; NULL is a sequence holding a token that is no
\* character, so that it differs from every text, the empty text included.
NULL == <<"NULL">>

\* u.get('id') of a record that has no id (None)
NoId == 0

EmailChars == {"a", "B", "@"}
NameChars == {"A", "l"}

StrOver(chars, n) == UNION {[1..k -> chars] : k \in 0..n}

\* the field combinations of the fetched records of the pipeline runs:
\* every key present, every key missing
Profiles ==
  { [name |-> <<"A","l">>, username |-> <<"a","l">>, email |-> <<"a","@","B">>,
     phone |-> <<"1">>, website |-> <<"w">>],
    [name |-> NULL, username |-> NULL, email |-> NULL,
     phone |-> NULL, website |-> NULL] }

WithId(p, id) ==
  [id |-> id, name |-> p.name, username |-> p.username, email |-> p.email,
   phone |-> p.phone, website |-> p.website]

\* the objects of the JSON array, as u.get(...) sees them
Records == {WithId(p, id) : p \in Profiles, id \in 0..MaxId}

Responses == UNION {[1..k -> Records] : k \in 0..MaxFetch}

Max(S) == CHOOSE m \in S : \A x \in S : x <= m
Min(S) == CHOOSE m \in S : \A x \in S : m <= x

(* ------------------------------------------------------------------ *)
(* The users table                                                    *)
(* ------------------------------------------------------------------ *)
\* rows of the table: a function from the id (rowid) to the five texts
EmptyRows == << >>

Fields(u) ==
  [name |-> u.name, username |-> u.username, email |-> u.email,
   phone |-> u.phone, website |-> u.website]

\* id INTEGER PRIMARY KEY given NULL: SQLite assigns largest rowid + 1
NextRowId(rows) == IF DOMAIN rows = {} THEN 1 ELSE Max(DOMAIN rows) + 1

\* a field-by-field merge: a NULL of the new record keeps the stored text
InsertOrReplace_merge(rows, u) ==
  LET key == IF u.id = NoId THEN NextRowId(rows) ELSE u.id
      new == Fields(u)
      Keep(f, old) == IF f = NULL THEN old ELSE f
  IN [k \in DOMAIN rows \cup {key} |->
        IF k # key THEN rows[k]
        ELSE IF k \notin DOMAIN rows THEN new
        ELSE [name |-> Keep(new.name, rows[k].name),
              username |-> Keep(new.username, rows[k].username),
              email |-> Keep(new.email, rows[k].email),
              phone |-> Keep(new.phone, rows[k].phone),
              website |-> Keep(new.website, rows[k].website)]]

\* INSERT OR REPLACE INTO users (...) VALUES (?, ?, ?, ?, ?, ?)
InsertOrReplace(rows, u) ==
  LET key == IF u.id = NoId THEN NextRowId(rows) ELSE u.id
  IN [k \in DOMAIN rows \cup {key} |-> IF k = key THEN Fields(u) ELSE rows[k]]

\* the whole loop "for u in users: cur.execute(INSERT OR REPLACE ...)"
RECURSIVE UpsertAll(_, _)
UpsertAll(rows, us) ==
  IF us = << >> THEN rows
  ELSE UpsertAll(InsertOrReplace(rows, Head(us)), Tail(us))

StoredColumns == <<"id", "name", "username", "email", "phone", "website">>

\* SELECT * FROM users: the rows in rowid order
RECURSIVE SelectAll(_, _)
SelectAll(rows, ids) ==
  IF ids = {} THEN << >>
  ELSE LET m == Min(ids)
       IN <<[id |-> m, name |-> rows[m].name, username |-> rows[m].username,
             email |-> rows[m].email, phone |-> rows[m].phone,
             website |-> rows[m].website]>>
          \o SelectAll(rows, ids \ {m})

\* pd.read_sql_query('SELECT * FROM users', conn)
ReadSqlQuery(rows) ==
  [columns |-> StoredColumns, rows |-> SelectAll(rows, DOMAIN rows)]

(* ------------------------------------------------------------------ *)
(* Derived columns                                                    *)
(* ------------------------------------------------------------------ *)
\* .astype(str): the text of None is "None"
Str(x) == IF x = NULL THEN <<"N","o","n","e">> ELSE x

UpperLetters ==
  <<"A","B","C","D","E","F","G","H","I","J","K","L","M",
    "N","O","P","Q","R","S","T","U","V","W","X","Y","Z">>

LowerLetters ==
  <<"a","b","c","d","e","f","g","h","i","j","k","l","m",
    "n","o","p","q","r","s","t","u","v","w","x","y","z">>

\* str.lower() that folds only the first letter of the alphabet
LowerChar_partial(c) == IF c = "A" THEN "a" ELSE c

\* str.lower() of one character: an upper-case letter becomes its lower-case
\* letter, every other character (digits, '.', '-', '@', ...) is kept
LowerChar(c) ==
  IF \E k \in 1..26 : UpperLetters[k] = c
  THEN LowerLetters[CHOOSE k \in 1..26 : UpperLetters[k] = c]
  ELSE c

\* str.lower()
Lower(s) == [k \in 1..Len(s) |-> LowerChar(s[k])]

\* '@' in x
HasAt(s) == \E k \in 1..Len(s) : s[k] = "@"

\* x.split('@'): the parts between the '@' characters
RECURSIVE Split(_, _)
Split(s, cur) ==
  IF s = << >> THEN <<cur>>
  ELSE IF Head(s) = "@" THEN <<cur>> \o Split(Tail(s), << >>)
  ELSE Split(Tail(s), Append(cur, Head(s)))

\* lambda x: x.split('@')[-1].lower() if '@' in x else None, after astype(str)
email_domain(email) ==
  LET x == Str(email)
      parts == Split(x, << >>)
  IN IF HasAt(x) THEN Lower(parts[Len(parts)]) ELSE NULL

\* a missing name counted as no characters
name_length_zero(name) == IF name = NULL THEN 0 ELSE Len(name)

\* df['name'].astype(str).apply(len)
name_length(name) == Len(Str(name))

\* df['username'].astype(str).apply(len)
username_length(username) == Len(Str(username))

\* df['name'].astype(str).apply(len), the bubble chart's placeholder
company_name_length(name) == Len(Str(name))

DerivedColumns ==
  <<"name_length", "email_domain", "username_length", "company_name_length">>

DeriveRow(r) ==
  [id |-> r.id, name |-> r.name, username |-> r.username, email |-> r.email,
   phone |-> r.phone, website |-> r.website,
   name_length |-> name_length(r.name),
   email_domain |-> email_domain(r.email),
   username_length |-> username_length(r.username),
   company_name_length |-> company_name_length(r.name)]

\* the four column assignments of lines 93-100
AddDerivedColumns(frame) ==
  [columns |-> frame.columns \o DerivedColumns,
   rows |-> [k \in 1..Len(frame.rows) |-> DeriveRow(frame.rows[k])]]

\* df.empty
Empty(frame) == Len(frame.rows) = 0 \/ Len(frame.columns) = 0

NoFrame == [columns |-> << >>, rows |-> << >>]

(* ------------------------------------------------------------------ *)
(* State                                                              *)
(* ------------------------------------------------------------------ *)
VARIABLES
  db,        \* the file usuarios_api.db: [table: created?, rows: committed rows]
  txn,       \* the rows as the open connection sees them (uncommitted writes)
  conn,      \* "none", "open" or "closed"
  users,     \* the parsed response
  i,         \* position of the insert loop in users
  df,        \* the dataframe
  view,      \* what the run has rendered
  gets,      \* GET requests issued by the run
  pc,        \* position of the run in the script
  failed,    \* the store operation that raised, "" if none
  before,    \* db when the run started
  last,      \* at the start of a run: the sequence the run before upserted
  repeat     \* the run fetched the sequence the run before it upserted

vars == <<db, txn, conn, users, i, df, view, gets, pc, failed, before, last, repeat>>

NoLast == [ok |-> FALSE, users |-> << >>]

ExplicitIds(us) == {us[k].id : k \in 1..Len(us)} \ {NoId}

NumNoId(us) == Cardinality({k \in 1..Len(us) : us[k].id = NoId})

\* the run keeps every rowid within MaxRowId
WithinCap(rows, us) ==
  Max(DOMAIN rows \cup ExplicitIds(us) \cup {0}) + NumNoId(us) <= MaxRowId

Init ==
  /\ db = [table |-> FALSE, rows |-> EmptyRows]
  /\ txn = EmptyRows
  /\ conn = "none"
  /\ users = << >>
  /\ i = 1
  /\ df = NoFrame
  /\ view = {}
  /\ gets = 0
  /\ pc = "fetch"
  /\ failed = ""
  /\ before = [table |-> FALSE, rows |-> EmptyRows]
  /\ last = NoLast
  /\ repeat = FALSE

(* ------------------------------------------------------------------ *)
(* The run                                                            *)
(* ------------------------------------------------------------------ *)
\* lines 53-55 without an exception
Fetch ==
  /\ pc = "fetch"
  /\ \E resp \in Responses :
       /\ WithinCap(db.rows, resp)
       /\ users' = resp
       /\ repeat' = (last.ok /\ last.users = resp)
  /\ gets' = gets + 1
  /\ last' = NoLast
  /\ pc' = "connect"
  /\ UNCHANGED <<db, txn, conn, i, df, view, failed, before>>

\* the error is shown but the script is not stopped
FetchError_continue ==
  /\ pc = "fetch"
  /\ gets' = gets + 1
  /\ view' = view \cup {"st.error"}
  /\ last' = NoLast
  /\ pc' = "connect"
  /\ UNCHANGED <<db, txn, conn, users, i, df, failed, before, repeat>>

\* lines 53-58: the GET, raise_for_status or json() raises;
\* st.error(...) and st.stop()
FetchError ==
  /\ pc = "fetch"
  /\ gets' = gets + 1
  /\ view' = view \cup {"st.error"}
  /\ last' = NoLast
  /\ pc' = "stopped"
  /\ UNCHANGED <<db, txn, conn, users, i, df, failed, before, repeat>>

\* lines 60-61
Connect ==
  /\ pc = "connect"
  /\ conn' = "open"
  /\ txn' = db.rows
  /\ pc' = "create"
  /\ UNCHANGED <<db, users, i, df, view, gets, failed, before, last, repeat>>

\* the table is dropped and created again on every run
CreateTable_drop ==
  /\ pc = "create"
  /\ db' = [table |-> TRUE, rows |-> EmptyRows]
  /\ txn' = EmptyRows
  /\ i' = 1
  /\ pc' = IF users = << >> THEN "commit" ELSE "insert"
  /\ UNCHANGED <<conn, users, df, view, gets, failed, before, last, repeat>>

\* lines 64-73: CREATE TABLE IF NOT EXISTS, which sqlite3 does not wrap in a
\* transaction
CreateTable ==
  /\ pc = "create"
  /\ db' = [db EXCEPT !.table = TRUE]
  /\ i' = 1
  /\ pc' = IF users = << >> THEN "commit" ELSE "insert"
  /\ UNCHANGED <<txn, conn, users, df, view, gets, failed, before, last, repeat>>

\* a connection in autocommit mode: every INSERT is persisted at once
Insert_autocommit ==
  /\ pc = "insert"
  /\ i <= Len(users)
  /\ txn' = InsertOrReplace(txn, users[i])
  /\ db' = [db EXCEPT !.rows = InsertOrReplace(txn, users[i])]
  /\ i' = i + 1
  /\ pc' = IF i = Len(users) THEN "commit" ELSE "insert"
  /\ UNCHANGED <<conn, users, df, view, gets, failed, before, last, repeat>>

\* lines 76-83: one turn of the loop; the write stays in the transaction
\* sqlite3 opened before the first INSERT
Insert ==
  /\ pc = "insert"
  /\ i <= Len(users)
  /\ txn' = InsertOrReplace(txn, users[i])
  /\ i' = i + 1
  /\ pc' = IF i = Len(users) THEN "commit" ELSE "insert"
  /\ UNCHANGED <<db, conn, users, df, view, gets, failed, before, last, repeat>>

\* line 84
Commit ==
  /\ pc = "commit"
  /\ db' = [db EXCEPT !.rows = txn]
  /\ pc' = "read"
  /\ UNCHANGED <<txn, conn, users, i, df, view, gets, failed, before, last, repeat>>

\* line 87
ReadBack ==
  /\ pc = "read"
  /\ df' = ReadSqlQuery(txn)
  /\ pc' = "close"
  /\ UNCHANGED <<db, txn, conn, users, i, view, gets, failed, before, last, repeat>>

\* line 88
Close ==
  /\ pc = "close"
  /\ conn' = "closed"
  /\ pc' = "derive"
  /\ UNCHANGED <<db, txn, users, i, df, view, gets, failed, before, last, repeat>>

\* lines 60-87: connect, execute, commit or read_sql_query raises; nothing
\* catches it, the script ends with the exception and line 88 is not reached
StoreError ==
  /\ pc \in {"connect", "create", "insert", "commit", "read"}
  /\ failed' = pc
  /\ pc' = "crashed"
  /\ UNCHANGED <<db, txn, conn, users, i, df, view, gets, before, last, repeat>>

\* lines 93-100
Derive ==
  /\ pc = "derive"
  /\ df' = AddDerivedColumns(df)
  /\ pc' = "render"
  /\ UNCHANGED <<db, txn, conn, users, i, view, gets, failed, before, last, repeat>>

\* tab3 without the df.empty test
Render_charts ==
  /\ pc = "render"
  /\ view' = view \cup {"tab1", "tab2", "tab3", "tab4", "charts"}
  /\ pc' = "done"
  /\ UNCHANGED <<db, txn, conn, users, i, df, gets, failed, before, last, repeat>>

\* lines 105-280: the four tabs; tab3 draws the charts unless df.empty
Render ==
  /\ pc = "render"
  /\ view' = view \cup {"tab1", "tab2", "tab3", "tab4"}
                  \cup (IF ~Empty(df) THEN {"charts"} ELSE {"st.warning"})
  /\ pc' = "done"
  /\ UNCHANGED <<db, txn, conn, users, i, df, gets, failed, before, last, repeat>>

\* the script is run again from its first line; a connection the run before
\* left open is dropped and its uncommitted writes are rolled back
Rerun ==
  /\ pc \in {"done", "stopped", "crashed"}
  /\ last' = [ok |-> (pc = "done"), users |-> IF pc = "done" THEN users ELSE << >>]
  /\ before' = db
  /\ txn' = EmptyRows
  /\ conn' = "none"
  /\ users' = << >>
  /\ i' = 1
  /\ df' = NoFrame
  /\ view' = {}
  /\ gets' = 0
  /\ failed' = ""
  /\ repeat' = FALSE
  /\ pc' = "fetch"
  /\ UNCHANGED db

Next ==
  \/ Fetch
  \/ FetchError
  \/ Connect
  \/ CreateTable
  \/ Insert
  \/ Commit
  \/ ReadBack
  \/ Close
  \/ StoreError
  \/ Derive
  \/ Render
  \/ Rerun

Spec == Init /\ [][Next]_vars

(* ------------------------------------------------------------------ *)
(* Derivation runs: one stored user with any name, username and email *)
(* ------------------------------------------------------------------ *)
NameTexts == StrOver(NameChars, MaxNameLen) \cup {NULL}

\* longer emails: mixed-case domains with '.', two '@', no '@'
ExampleEmails ==
  { <<"a","@","B",".","C","O","M">>,
    <<"R","e","y","@","K","A","R","I","N","A",".","b","i","z">>,
    <<"x","@","y","@","Z",".","B">>,
    <<"n","o","-","a","t","-","s","i","g","n">> }

EmailTexts == StrOver(EmailChars, MaxEmailLen) \cup ExampleEmails \cup {NULL}

\* the run of a first fetch of one user, after conn.close()
InitDerive ==
  /\ \E n \in NameTexts, un \in NameTexts, e \in EmailTexts :
       users = <<[id |-> 1, name |-> n, username |-> un, email |-> e,
                  phone |-> NULL, website |-> NULL]>>
  /\ db = [table |-> TRUE, rows |-> UpsertAll(EmptyRows, users)]
  /\ txn = db.rows
  /\ conn = "closed"
  /\ i = 2
  /\ df = ReadSqlQuery(db.rows)
  /\ view = {}
  /\ gets = 1
  /\ pc = "derive"
  /\ failed = ""
  /\ before = [table |-> FALSE, rows |-> EmptyRows]
  /\ last = NoLast
  /\ repeat = FALSE

NextDerive ==
  \/ Derive
  \/ Render

SpecDerive == InitDerive /\ [][NextDerive]_vars

(* ------------------------------------------------------------------ *)
(* Properties                                                         *)
(* ------------------------------------------------------------------ *)
\* the run has executed conn.commit()
Committed ==
  \/ pc \in {"read", "close", "derive", "render", "done"}
  \/ pc = "crashed" /\ failed = "read"

Ended == pc \in {"done", "stopped", "crashed"}

\* C1: a run that upserts the very sequence the run before it upserted
\* leaves the stored rows as that run left them.
C1_Idempotent ==
  (repeat /\ Committed) => db.rows = before.rows

\* C2: after the commit, every id of the fetched sequence is stored with
\* all five fields of the (last) fetched record with that id, a NULL field
\* included; nothing of the row stored before is kept.
C2_LastWriteWins ==
  Committed =>
    \A k \in 1..Len(users) :
      (/\ users[k].id # NoId
       /\ \A j \in (k+1)..Len(users) : users[j].id # users[k].id)
      => /\ users[k].id \in DOMAIN db.rows
         /\ db.rows[users[k].id] = Fields(users[k])

\* a committed run has replaced a stored name by NULL
C2_Witness ==
  /\ pc = "done"
  /\ \E k \in 1..Len(users) :
       /\ users[k].id \in DOMAIN before.rows
       /\ before.rows[users[k].id].name # NULL
       /\ before.rows[users[k].id].phone # NULL
       /\ db.rows[users[k].id].name = NULL
       /\ db.rows[users[k].id].phone = NULL

\* C3: every row stored when the run started is still stored, and is
\* unchanged when its id is not in the fetched sequence.
C3_NoDeletion ==
  \A id \in DOMAIN before.rows :
    /\ id \in DOMAIN db.rows
    /\ id \notin ExplicitIds(users) => db.rows[id] = before.rows[id]

\* a committed run changed the store and left a row it did not fetch
C3_Witness ==
  /\ pc = "done"
  /\ db.rows # before.rows
  /\ \E id \in DOMAIN before.rows :
       id \notin ExplicitIds(users) /\ db.rows[id] = before.rows[id]

\* C4: once the fetch error is shown the run is stopped: the store is as
\* it was, no connection was opened, no dataframe derived, nothing but the
\* error rendered, and the GET was issued once. No run issues two GETs.
C4_FetchFailureTerminal ==
  /\ gets <= 1
  /\ "st.error" \in view =>
       /\ pc = "stopped"
       /\ db = before
       /\ conn = "none"
       /\ df = NoFrame
       /\ view = {"st.error"}
       /\ gets = 1

\* a run over a store that holds rows stopped on a fetch error
C4_Witness ==
  /\ pc = "stopped"
  /\ "st.error" \in view
  /\ before.rows # EmptyRows

\* C5: no run ends with its store connection open.
C5_ConnectionReleased ==
  Ended => conn # "open"

\* C6: the stored rows are those the store held when the run started or
\* those rows with every fetched record upserted, never something between.
C6_Atomic ==
  db.rows \in {before.rows, UpsertAll(before.rows, users)}

\* an insert raised after an earlier insert of the run had been executed
C6_Witness ==
  /\ pc = "crashed"
  /\ failed = "insert"
  /\ i >= 2
  /\ txn # before.rows
  /\ db.rows = before.rows

\* C7: a run ended by a store error has surfaced an error message the way
\* a fetch error does.
C7_StoreErrorSurfaced ==
  (pc = "crashed") => "st.error" \in view

\* y is the lower-case form of the character x
IsLowerOf(y, x) ==
  \/ \E k \in 1..26 : x = UpperLetters[k] /\ y = LowerLetters[k]
  \/ (\A k \in 1..26 : x # UpperLetters[k]) /\ y = x

\* C8: in the derived table email_domain is NULL when email is NULL or
\* has no '@', and else the lower-cased text after the last '@' of email.
C8_DomainExtraction ==
  pc \in {"render", "done"} =>
    \A k \in 1..Len(df.rows) :
      LET e == df.rows[k].email
          d == df.rows[k].email_domain
      IN IF e = NULL \/ ~(\E j \in 1..Len(e) : e[j] = "@")
         THEN d = NULL
         ELSE \E j \in 1..Len(e) :
                /\ e[j] = "@"
                /\ \A m \in (j+1)..Len(e) : e[m] # "@"
                /\ d # NULL
                /\ Len(d) = Len(e) - j
                /\ \A m \in 1..Len(d) : IsLowerOf(d[m], e[j + m])

\* "a@B.COM" has been derived to "b.com", "no-at-sign" gives NULL
C8_Witness ==
  /\ pc = "done"
  /\ \/ /\ df.rows[1].email = <<"a","@","B",".","C","O","M">>
        /\ df.rows[1].email_domain = <<"b",".","c","o","m">>
     \/ /\ df.rows[1].email = <<"x","@","y","@","Z",".","B">>
        /\ df.rows[1].email_domain = <<"z",".","b">>

\* C9: in the derived table name_length and username_length count the
\* characters of name and username, 4 for a NULL one, and
\* company_name_length equals name_length.
C9_Lengths ==
  pc \in {"render", "done"} =>
    \A k \in 1..Len(df.rows) :
      LET r == df.rows[k]
      IN /\ r.name_length = IF r.name = NULL THEN 4 ELSE Len(r.name)
         /\ r.username_length = IF r.username = NULL THEN 4 ELSE Len(r.username)
         /\ r.company_name_length = r.name_length

\* a row with a NULL name and a one-character username has been derived
C9_Witness ==
  /\ pc = "done"
  /\ df.rows[1].name = NULL
  /\ df.rows[1].name_length = 4
  /\ Len(df.rows[1].username) = 1
  /\ df.rows[1].username_length = 1

\* C10: a run that fetched the empty sequence into a store without rows is
\* not stopped by an error message, derives a table of no rows with all ten
\* columns, and ends with the warning in place of the charts.
C10_EmptyData ==
  (pc \notin {"fetch", "stopped"} /\ users = << >> /\ before.rows = EmptyRows) =>
    /\ "st.error" \notin view
    /\ pc \in {"render", "done"} =>
         df = [columns |-> StoredColumns \o DerivedColumns, rows |-> << >>]
    /\ pc = "done" =>
         view = {"tab1", "tab2", "tab3", "tab4", "st.warning"}

\* such a run has ended
C10_Witness ==
  /\ pc = "done"
  /\ users = << >>
  /\ before.rows = EmptyRows
  /\ db.table
  /\ Len(df.columns) = 10
  /\ "st.warning" \in view

====
